---- MODULE Spec2Model ----
(***************************************************************************)
(* Model of scripts/events-consumer.py: the batch consumption loop with    *)
(* its idle clock, the per-message dispatch, the registry fetch, the three *)
(* kuadrantctl invocations, the two deletions and the git synchronisation. *)
(* The file system below <parent-of-cwd>/api-resources/api-resources is    *)
(* the variable tree: a set of directories and a map from files to the     *)
(* documents they hold.                                                    *)
(***************************************************************************)
EXTENDS Integers, Sequences, FiniteSets, TLC

\* ------------------------------------------------------------------ bounds
\* Messages delivered by the stream during one run.
MaxMsgs == 2

\* batch_size as main() passes it to consume_messages_in_batches.
batch_size == 10

\* -------------------------------------------------------------- vocabulary
\* Python's None: the value payload.get() gives for a field that is absent.
None == "None"

Modes == <<"httproute", "authpolicy", "ratelimiting_policy">>
ModeSet == {Modes[k] : k \in 1..Len(Modes)}

\* (timeout, idle_timeout) pairs the loop is run with; <<5, 10>> is what
\* main() uses.
Configs == {<<5, 10>>, <<3, 10>>}

\* Documents kuadrantctl prints: mappings from top-level keys to values.
Docs == { [kind |-> "r1"],
          [kind |-> "r1", status |-> "s1"],
          [kind |-> "r2", status |-> "s2"] }

\* ------------------------------------------------------------- file system
EmptyTree == [dirs |-> {}, files |-> <<>>]

IsPrefix(p, q) == Len(p) <= Len(q) /\ SubSeq(q, 1, Len(p)) = p

\* os.path.exists(path)
Exists(t, p) == p \in t.dirs

\* os.makedirs(path, exist_ok=True): the directory and every missing parent.
MakeDirs(t, p) == [t EXCEPT !.dirs = @ \cup {SubSeq(p, 1, k) : k \in 1..Len(p)}]

\* shutil.rmtree(path): the directory, and every directory and file below it.
RmTree(t, p) ==
    LET keep == {f \in DOMAIN t.files : ~IsPrefix(p, f.dir)}
    IN  [dirs  |-> {d \in t.dirs : ~IsPrefix(p, d)},
         files |-> [f \in keep |-> t.files[f]]]

\* Fault: a file that exists is not replaced, the document goes to a new
\* file next to it.
WriteFileBeside(t, f, data) ==
    LET h == IF f \in DOMAIN t.files THEN [f EXCEPT !.name = @ \o <<"1">>] ELSE f
    IN  [t EXCEPT !.files = [g \in (DOMAIN @) \cup {h} |-> IF g = h THEN data ELSE @[g]]]

\* open(file_path, 'w') followed by yaml.dump(data, file): the file is created
\* or replaced, and holds data.
WriteFile(t, f, data) ==
    [t EXCEPT !.files = [g \in (DOMAIN @) \cup {f} |-> IF g = f THEN data ELSE @[g]]]

\* os.path.join(..., group_id, artifact_id, version): the directory of a version.
FolderPath(g, a, v) == <<g, a, v>>

\* Fault: the file name leaves the mode out.
FilePathNoMode(g, a, v, mode) == [dir |-> <<g, a, v>>, name |-> <<g, a, v, "x">>]

\* f"{group_id}_{artifact_id}_v{version}_{filename}.yaml" inside folder_path.
FilePath(g, a, v, mode) == [dir |-> FolderPath(g, a, v), name |-> <<g, a, v, mode>>]

\* Fault: the status is left in the document.
PopStatusKeep(data) == data

\* data.pop('status', None)
PopStatus(data) == [k \in (DOMAIN data) \ {"status"} |-> data[k]]


\* --------------------------------------------------------- collaborators
\* What one kuadrantctl run gives: a non-zero exit (CalledProcessError under
\* check=True), or exit 0 with a standard output that yaml.safe_load rejects
\* ("badyaml"), loads as something that is no mapping, such as None for an
\* empty output ("notmapping"), or loads as the mapping doc ("doc").
NoDoc == [k \in {} |-> "x"]
GenOk(d) == [kind |-> "doc", doc |-> d]
GenFail(kind) == [kind |-> kind, doc |-> NoDoc]
GenFailures == {"nonzero", "badyaml", "notmapping"}

\* The answers of the registry, of kuadrantctl and of the file system to one
\* call of get_artifact_content: content and state are the two fetches
\* ("fail" when the request raises), gen[mode] is the kuadrantctl run of a
\* mode, mkdir and write[mode] say whether os.makedirs and open/yaml.dump
\* succeed.
AllOk(d) == [content |-> "ok", state |-> "ENABLED", mkdir |-> TRUE,
             gen |-> [m \in ModeSet |-> GenOk(d)],
             write |-> [m \in ModeSet |-> TRUE]]

D0 == [kind |-> "r1"]

Envs ==
    {AllOk(d) : d \in Docs}
    \cup {[AllOk(D0) EXCEPT !.content = "fail"], [AllOk(D0) EXCEPT !.state = "fail"]}
    \cup {[AllOk(D0) EXCEPT !.state = "DISABLED"]}
    \cup {[AllOk(D0) EXCEPT !.gen[m] = GenFail(k)] : m \in ModeSet, k \in GenFailures}
    \cup {[AllOk(D0) EXCEPT !.gen = [m \in ModeSet |-> GenFail("nonzero")]]}
    \cup {[AllOk(D0) EXCEPT !.write[m] = FALSE] : m \in ModeSet}
    \cup {[AllOk(D0) EXCEPT !.mkdir = FALSE]}

\* The environment of a message that reaches no collaborator.
NoEnv == [AllOk(D0) EXCEPT !.content = "unused"]

\* ------------------------------------------------------------ the handlers
\* Every handler gives [tree, calls, raised]: the tree it leaves, the
\* collaborator calls it made in order ("content", "state", or the mode of a
\* kuadrantctl run), and whether an exception escapes it.
Result(t, calls, raised) == [tree |-> t, calls |-> calls, raised |-> raised]

\* Fault: the try catches nothing.
CaughtNothing(kind) == FALSE

\* `except subprocess.CalledProcessError` of invoke_kuadrant_command: the
\* failures of a kuadrantctl run that the try catches.
Caught(kind) == kind = "nonzero"

\* invoke_kuadrant_command: os.path.join raises TypeError on None; makedirs is
\* outside the try; whatever the try does not catch escapes.
InvokeKuadrantCommand(t, g, a, v, mode, env) ==
    IF None \in {a, v} THEN Result(t, <<>>, TRUE)
    ELSE IF ~env.mkdir THEN Result(t, <<>>, TRUE)
    ELSE LET t1  == MakeDirs(t, FolderPath(g, a, v))
             out == env.gen[mode]
         IN  IF out.kind # "doc" THEN Result(t1, <<mode>>, ~Caught(out.kind))
             ELSE IF ~env.write[mode] THEN Result(t1, <<mode>>, TRUE)
             ELSE Result(WriteFile(t1, FilePath(g, a, v, mode), PopStatus(out.doc)),
                         <<mode>>, FALSE)

\* invoke_kuadrant_cli: the three modes in order; an exception escaping one
\* call skips the calls after it.
InvokeKuadrantCli(t, g, a, v, env) ==
    LET r1 == InvokeKuadrantCommand(t, g, a, v, Modes[1], env)
        r2 == InvokeKuadrantCommand(r1.tree, g, a, v, Modes[2], env)
        r3 == InvokeKuadrantCommand(r2.tree, g, a, v, Modes[3], env)
    IN  IF r1.raised THEN r1
        ELSE IF r2.raised THEN Result(r2.tree, r1.calls \o r2.calls, TRUE)
        ELSE Result(r3.tree, r1.calls \o r2.calls \o r3.calls, r3.raised)

\* Fault: the state the registry reports is not looked at.
GetArtifactContentAnyState(t, g, a, v, env) ==
    IF env.content = "fail" THEN Result(t, <<"content">>, FALSE)
    ELSE IF env.state = "fail" THEN Result(t, <<"content", "state">>, FALSE)
    ELSE LET r == InvokeKuadrantCli(t, g, a, v, env)
         IN  Result(r.tree, <<"content", "state">> \o r.calls, FALSE)

\* Fault: no try around the fetches, a failing request escapes.
GetArtifactContentNoExcept(t, g, a, v, env) ==
    IF env.content = "fail" THEN Result(t, <<"content">>, TRUE)
    ELSE IF env.state = "fail" THEN Result(t, <<"content", "state">>, TRUE)
    ELSE IF env.state = "ENABLED"
         THEN LET r == InvokeKuadrantCli(t, g, a, v, env)
              IN  Result(r.tree, <<"content", "state">> \o r.calls, FALSE)
         ELSE Result(t, <<"content", "state">>, FALSE)

\* get_artifact_content: content, then state, then the generator when the
\* state is ENABLED; `except Exception` swallows whatever is raised.
GetArtifactContent(t, g, a, v, env) ==
    IF env.content = "fail" THEN Result(t, <<"content">>, FALSE)
    ELSE IF env.state = "fail" THEN Result(t, <<"content", "state">>, FALSE)
    ELSE IF env.state = "ENABLED"
         THEN LET r == InvokeKuadrantCli(t, g, a, v, env)
              IN  Result(r.tree, <<"content", "state">> \o r.calls, FALSE)
         ELSE Result(t, <<"content", "state">>, FALSE)

\* delete_artifact_directory
DeleteArtifactDirectory(t, g, a) ==
    IF a = None THEN Result(t, <<>>, TRUE)
    ELSE IF Exists(t, <<g, a>>) THEN Result(RmTree(t, <<g, a>>), <<>>, FALSE)
    ELSE Result(t, <<>>, FALSE)

\* Fault: the path leaves the version out.
DeleteVersionNoVersion(t, g, a, v) == DeleteArtifactDirectory(t, g, a)

\* delete_version
DeleteVersion(t, g, a, v) ==
    IF None \in {a, v} THEN Result(t, <<>>, TRUE)
    ELSE IF Exists(t, FolderPath(g, a, v))
         THEN Result(RmTree(t, FolderPath(g, a, v)), <<>>, FALSE)
         ELSE Result(t, <<>>, FALSE)


\* ---------------------------------------------------------------- messages
\* A polled message: error is what msg.error() gives ("none", "eof" for
\* KafkaError._PARTITION_EOF, "other" for any other error); body says how far
\* the decoding of msg.value() gets; the remaining fields are those of the
\* decoded payload (None when absent).
Message(error, body, eventType, groupId, artifactId, version, newState) ==
    [error |-> error, body |-> body, eventType |-> eventType, groupId |-> groupId,
     artifactId |-> artifactId, version |-> version, newState |-> newState]

Blank(error, body) == Message(error, body, None, None, None, None, None)

Event(eventType, groupId, artifactId, version, newState) ==
    Message("none", "event", eventType, groupId, artifactId, version, newState)

\* Bodies that never reach the dispatch: bytes that are no UTF-8, text that is
\* no JSON, a document without 'payload', a 'payload' string that is no JSON,
\* a 'payload' that is a nested object instead of a string.
Undecodable == {"badutf8", "badjson", "nopayload", "payloadbadjson", "payloadobject"}

EventTypes == {"ARTIFACT_VERSION_CREATED", "ARTIFACT_VERSION_STATE_CHANGED",
               "ARTIFACT_DELETED", "ARTIFACT_VERSION_DELETED", "ARTIFACT_CREATED"}

\* The coordinates (groupId, artifactId, version) the events of a type carry;
\* None is an absent field.
CoordsOf(eventType) ==
    CASE eventType = "ARTIFACT_VERSION_CREATED" ->
            {<<None, "a", "1">>, <<None, "a", None>>, <<None, None, "1">>}
      [] eventType = "ARTIFACT_VERSION_STATE_CHANGED" ->
            {<<"shop", "a", "1">>, <<None, None, "1">>}
      [] eventType = "ARTIFACT_DELETED" ->
            {<<None, "a", None>>, <<"shop", "a", None>>, <<None, None, None>>}
      [] eventType = "ARTIFACT_VERSION_DELETED" ->
            {<<None, "a", "1">>, <<"shop", "a", "1">>, <<None, "a", None>>,
             <<None, None, "1">>}
      [] OTHER ->
            {<<None, "a", "1">>}

NewStates(eventType) ==
    IF eventType = "ARTIFACT_VERSION_STATE_CHANGED"
    THEN {"ENABLED", "DISABLED", None} ELSE {None}

Messages ==
    {Blank("eof", "none"), Blank("other", "none")}
    \cup {Blank("none", b) : b \in Undecodable}
    \cup UNION {{Event(et, c[1], c[2], c[3], ns) : ns \in NewStates(et), c \in CoordsOf(et)}
                : et \in EventTypes}

\* group_id = payload.get('groupId', 'default')
GroupOf(msg) == IF msg.groupId = None THEN "default" ELSE msg.groupId

\* Does process_message reach get_artifact_content for msg?
Fetches(msg) ==
    /\ msg.error = "none" /\ msg.body = "event"
    /\ \/ msg.eventType = "ARTIFACT_VERSION_CREATED"
       \/ msg.eventType = "ARTIFACT_VERSION_STATE_CHANGED" /\ msg.newState = "ENABLED"

\* The environments a message is processed in: every one when it names a
\* version to fetch, a failing and a succeeding fetch when it names none.
EnvsFor(msg) ==
    IF ~Fetches(msg) THEN {NoEnv}
    ELSE IF None \in {msg.artifactId, msg.version}
         THEN {[AllOk(D0) EXCEPT !.content = "fail"], AllOk(D0)}
         ELSE Envs

\* Fault: every state change is taken for an enablement.
StateChangeEnablesAny(newState) == TRUE

\* `if new_state == 'ENABLED'` of process_message.
StateChangeEnables(newState) == newState = "ENABLED"

\* process_message: decode, then dispatch on eventType. JSONDecodeError and
\* KeyError are caught; UnicodeDecodeError and TypeError are not.
ProcessMessage(t, msg, env) ==
    IF msg.body \in {"badutf8", "payloadobject"} THEN Result(t, <<>>, TRUE)
    ELSE IF msg.body # "event" THEN Result(t, <<>>, FALSE)
    ELSE IF msg.eventType = "ARTIFACT_VERSION_CREATED"
         THEN GetArtifactContent(t, GroupOf(msg), msg.artifactId, msg.version, env)
    ELSE IF msg.eventType = "ARTIFACT_VERSION_STATE_CHANGED"
         THEN IF StateChangeEnables(msg.newState)
              THEN GetArtifactContent(t, GroupOf(msg), msg.artifactId, msg.version, env)
              ELSE Result(t, <<>>, FALSE)
    ELSE IF msg.eventType = "ARTIFACT_DELETED"
         THEN DeleteArtifactDirectory(t, GroupOf(msg), msg.artifactId)
    ELSE IF msg.eventType = "ARTIFACT_VERSION_DELETED"
         THEN DeleteVersion(t, GroupOf(msg), msg.artifactId, msg.version)
    ELSE Result(t, <<>>, FALSE)

\* commit_and_push_to_git: git add, commit, push, each with check=True; a
\* CalledProcessError ends the sequence and is caught, any other exception
\* (git cannot be started) escapes. outcome names the step that fails and how.
GitSteps == <<"add", "commit", "push">>
NoGitOutcome == [failAt |-> 0, how |-> "none"]
GitOutcomes ==
    {NoGitOutcome}
    \cup {[failAt |-> k, how |-> h] : k \in 1..Len(GitSteps), h \in {"exit", "oserror"}}

\* Fault: the CalledProcessError of a failing step is not caught.
CommitAndPushToGitReraise(outcome) ==
    [steps  |-> IF outcome.failAt = 0 THEN GitSteps
                ELSE SubSeq(GitSteps, 1, outcome.failAt),
     raised |-> outcome.how # "none"]

CommitAndPushToGit(outcome) ==
    [steps  |-> IF outcome.failAt = 0 THEN GitSteps
                ELSE SubSeq(GitSteps, 1, outcome.failAt),
     raised |-> outcome.how = "oserror"]


\* ------------------------------------------------------------------- state
VARIABLES
    pc,           \* where consume_messages_in_batches is: "poll" (line 40),
                  \* "process" (in process_messages), "sync" (line 49),
                  \* "finally" (line 52), "done"
    timeout,      \* the timeout parameter
    idle_timeout, \* the idle_timeout parameter
    idle_time,    \* the local idle_time
    messages,     \* the batch the last consume() returned
    i,            \* position of process_messages' for loop in messages
    tree,         \* the output tree on disk
    received,     \* messages delivered so far
    emptyPolls,   \* consecutive empty batches since the last non-empty one
    last,         \* the message handed to process_message last since the
                  \* last poll, with the environment it ran in and what it did
    replayed,     \* last repeats the message and environment just before it
    lastOp,       \* the step taken last
    syncCalls,    \* calls of commit_and_push_to_git
    git,          \* the git steps the last such call ran
    gitOutcome,   \* how those steps went: the step that failed, and how
    handled,      \* the messages of the current batch handed to
                  \* process_message so far, in order
    closeCalls,   \* calls of consumer.close()
    exit          \* how the loop was left: "running", "idle", "exception",
                  \* "interrupt"

vars == <<pc, timeout, idle_timeout, idle_time, messages, i, tree, received,
          emptyPolls, last, replayed, lastOp, syncCalls, git, gitOutcome, handled,
          closeCalls, exit>>

NoLast == [msg |-> Blank("none", "none"), env |-> NoEnv, calls |-> <<>>,
           raised |-> FALSE, changed |-> FALSE]

\* The trees a run may find on disk: nothing, or what earlier runs generated.
G(t, g, a, v) == GetArtifactContent(t, g, a, v, AllOk(D0)).tree
PopulatedTree ==
    G(G(G(G(EmptyTree, "default", "a", "1"), "default", "a", "2"),
        "default", "b", "1"), "shop", "a", "1")
InitTrees == {EmptyTree, PopulatedTree}

Init ==
    /\ pc = "poll"
    /\ \E c \in Configs : timeout = c[1] /\ idle_timeout = c[2]
    /\ idle_time = 0
    /\ messages = <<>>
    /\ i = 1
    /\ tree \in InitTrees
    /\ received = 0
    /\ emptyPolls = 0
    /\ last = NoLast
    /\ replayed = FALSE
    /\ lastOp = "init"
    /\ syncCalls = 0
    /\ git = <<>>
    /\ gitOutcome = NoGitOutcome
    /\ handled = <<>>
    /\ closeCalls = 0
    /\ exit = "running"

Min(x, y) == IF x <= y THEN x ELSE y

\* Faults of the threshold test: a strict comparison; no comparison at all.
IdleReachedStrict(idle, threshold) == idle > threshold
IdleReachedAlways(idle, threshold) == TRUE

\* `if idle_time >= idle_timeout`
IdleReached(idle, threshold) == idle >= threshold

\* Fault: the exception leaves the function with no finally block.
UnwindNoFinally(how) == pc' = "done" /\ exit' = how

\* try ... finally: an exception leaving the while loop runs the finally block.
Unwind(how) == pc' = "finally" /\ exit' = how

\* consumer.consume() returns a non-empty batch: idle_time = 0, then
\* process_messages.
Receive(M) ==
    /\ pc = "poll"
    /\ received < MaxMsgs
    /\ \E n \in 1..Min(batch_size, MaxMsgs - received) :
         \E b \in [1..n -> M] :
            /\ messages' = b
            /\ received' = received + n
    /\ i' = 1
    /\ idle_time' = 0
    /\ emptyPolls' = 0
    /\ pc' = "process"
    /\ last' = NoLast
    /\ replayed' = FALSE
    /\ handled' = <<>>
    /\ lastOp' = "poll"
    /\ UNCHANGED <<timeout, idle_timeout, tree, syncCalls, git, gitOutcome,
                   closeCalls, exit>>

PollBatch == Receive(Messages)

\* Fault: the empty poll does not add to the idle clock.
PollEmptyNoClock ==
    /\ pc = "poll"
    /\ messages' = <<>>
    /\ i' = 1
    /\ idle_time' = idle_time
    /\ emptyPolls' = emptyPolls + 1
    /\ pc' = IF IdleReached(idle_time', idle_timeout) THEN "sync" ELSE "poll"
    /\ last' = NoLast
    /\ replayed' = FALSE
    /\ handled' = <<>>
    /\ lastOp' = "empty"
    /\ UNCHANGED <<timeout, idle_timeout, tree, received, syncCalls, git,
                   gitOutcome, closeCalls, exit>>

\* consumer.consume() returns nothing: idle_time += timeout, and the
\* threshold test.
PollEmpty ==
    /\ pc = "poll"
    /\ messages' = <<>>
    /\ i' = 1
    /\ idle_time' = idle_time + timeout
    /\ emptyPolls' = emptyPolls + 1
    /\ pc' = IF IdleReached(idle_time', idle_timeout) THEN "sync" ELSE "poll"
    /\ last' = NoLast
    /\ replayed' = FALSE
    /\ handled' = <<>>
    /\ lastOp' = "empty"
    /\ UNCHANGED <<timeout, idle_timeout, tree, received, syncCalls, git,
                   gitOutcome, closeCalls, exit>>

\* consumer.consume() raises (KafkaException, KeyboardInterrupt).
PollRaises ==
    /\ pc = "poll"
    /\ Unwind("interrupt")
    /\ lastOp' = "raise"
    /\ UNCHANGED <<timeout, idle_timeout, idle_time, messages, i, tree, received,
                   emptyPolls, last, replayed, syncCalls, git, gitOutcome, handled,
                   closeCalls>>

\* Fault: the loop steps over the message after the current one.
AdvanceTwo ==
    /\ i' = i + 2
    /\ pc' = IF i + 2 > Len(messages) THEN "poll" ELSE "process"
    /\ exit' = exit

\* The for loop of process_messages moves on, or returns to the while loop.
Advance ==
    /\ i' = i + 1
    /\ pc' = IF i + 1 > Len(messages) THEN "poll" ELSE "process"
    /\ exit' = exit

\* process_messages on a message with msg.error(): continue.
Skip ==
    /\ pc = "process"
    /\ i <= Len(messages)
    /\ messages[i].error # "none"
    /\ Advance
    /\ lastOp' = "skip"
    /\ UNCHANGED <<timeout, idle_timeout, idle_time, messages, tree, received,
                   emptyPolls, last, replayed, syncCalls, git, gitOutcome, handled,
                   closeCalls>>

\* process_messages hands a message to process_message; an exception that
\* escapes it leaves both loops.
Dispatch ==
    /\ pc = "process"
    /\ i <= Len(messages)
    /\ messages[i].error = "none"
    /\ \E env \in EnvsFor(messages[i]) :
         LET r == ProcessMessage(tree, messages[i], env)
         IN  /\ tree' = r.tree
             /\ last' = [msg |-> messages[i], env |-> env, calls |-> r.calls,
                         raised |-> r.raised, changed |-> r.tree # tree]
             /\ replayed' = (lastOp = "dispatch" /\ last.msg = messages[i]
                             /\ last.env = env)
             /\ IF r.raised
                THEN Unwind("exception") /\ i' = i
                ELSE Advance
    /\ handled' = Append(handled, messages[i])
    /\ lastOp' = "dispatch"
    /\ UNCHANGED <<timeout, idle_timeout, idle_time, messages, received, emptyPolls,
                   syncCalls, git, gitOutcome, closeCalls>>

\* The idle threshold is reached: commit_and_push_to_git(), then break.
Sync ==
    /\ pc = "sync"
    /\ \E o \in GitOutcomes :
         LET r == CommitAndPushToGit(o)
         IN  /\ git' = r.steps
             /\ gitOutcome' = o
             /\ IF r.raised THEN Unwind("exception")
                ELSE pc' = "finally" /\ exit' = "idle"
    /\ syncCalls' = syncCalls + 1
    /\ lastOp' = "sync"
    /\ UNCHANGED <<timeout, idle_timeout, idle_time, messages, i, tree, received,
                   emptyPolls, last, replayed, handled, closeCalls>>

\* finally: consumer.close()
Close ==
    /\ pc = "finally"
    /\ closeCalls' = closeCalls + 1
    /\ pc' = "done"
    /\ lastOp' = "close"
    /\ UNCHANGED <<timeout, idle_timeout, idle_time, messages, i, tree, received,
                   emptyPolls, last, replayed, syncCalls, git, gitOutcome, handled,
                   exit>>

Next == PollBatch \/ PollEmpty \/ PollRaises \/ Skip \/ Dispatch \/ Sync \/ Close

Spec == Init /\ [][Next]_vars

\* The messages by what the loop does with them: dropped for their error,
\* raising out of the loop, handled with or without a caught failure.
LoopMessages ==
    {Blank("eof", "none"), Blank("other", "none")}
    \cup {Blank("none", b) : b \in Undecodable}
    \cup {Event("ARTIFACT_VERSION_CREATED", None, "a", "1", None),
          Event("ARTIFACT_VERSION_CREATED", None, None, "1", None),
          Event("ARTIFACT_VERSION_DELETED", None, "a", "1", None),
          Event("ARTIFACT_VERSION_DELETED", None, "a", None, None)}

PollLoopBatch == Receive(LoopMessages)

LoopNext ==
    PollLoopBatch \/ PollEmpty \/ PollRaises \/ Skip \/ Dispatch \/ Sync \/ Close

\* The loop is a single thread that runs to completion: consume() returns
\* after timeout at the latest when no message arrives, and every statement
\* that follows a returned call runs.
LiveSpec ==
    /\ Init
    /\ [][LoopNext]_vars
    /\ WF_vars(PollEmpty)
    /\ WF_vars(Skip)
    /\ WF_vars(Dispatch)
    /\ WF_vars(Sync)
    /\ WF_vars(Close)

\* ------------------------------------------------------------------ claims
Running == pc \in {"poll", "process"}
Synced == pc = "sync" \/ syncCalls > 0

\* C1: the idle clock is 0 after every non-empty batch and grows by timeout
\* on every empty one, so it always equals (consecutive empty polls) x timeout;
\* the loop is still running only while that product is below idle_timeout,
\* and it goes to the synchronisation at the first empty poll at which the
\* product reaches idle_timeout: the second one for timeout=5, idle_timeout=10.
\* While a batch is being processed the clock is 0 and nothing was synced.
C1_IdleClock ==
    /\ idle_time = emptyPolls * timeout
    /\ Running => emptyPolls * timeout < idle_timeout /\ syncCalls = 0
    /\ pc = "process" => idle_time = 0 /\ emptyPolls = 0
    /\ Synced => /\ emptyPolls * timeout >= idle_timeout
                 /\ (emptyPolls - 1) * timeout < idle_timeout
    /\ (Synced /\ timeout = 5 /\ idle_timeout = 10) => emptyPolls = 2

\* A run that received its messages after an empty poll and then stopped on
\* the second consecutive empty poll.
C1_Witness ==
    /\ pc = "done" /\ exit = "idle" /\ syncCalls = 1
    /\ timeout = 5 /\ idle_timeout = 10
    /\ received = MaxMsgs /\ emptyPolls = 2 /\ idle_time = 10

\* C2: commit_and_push_to_git is called at most once, only right after the
\* empty poll that brought the idle clock to the threshold; once it was
\* called nothing follows but the close; and a run that was left by idleness
\* has called it exactly once.
C2_SyncOnce ==
    [][ /\ syncCalls' # syncCalls =>
              /\ syncCalls = 0 /\ syncCalls' = 1
              /\ lastOp = "empty" /\ idle_time >= idle_timeout
        /\ syncCalls >= 1 => lastOp' = "close" /\ tree' = tree
        /\ exit' = "idle" => syncCalls' = 1
        /\ (pc' = "done" /\ emptyPolls' * timeout' >= idle_timeout') => syncCalls' = 1
      ]_vars

C2_Witness ==
    pc = "done" /\ exit = "idle" /\ syncCalls = 1 /\ git = GitSteps /\ received > 0

\* C3: every run ends with the consumer closed: a state the loop cannot
\* leave has seen exactly one close, whether the loop was left by idleness,
\* by an exception or by an interrupted poll; the close is never repeated and
\* no poll, dispatch or sync is possible after it.
C3_AlwaysClosed ==
    /\ closeCalls <= 1
    /\ ~(ENABLED Next) => closeCalls = 1
    /\ pc = "done" => closeCalls = 1
    /\ closeCalls = 1 => /\ pc = "done"
                         /\ ~ENABLED (PollBatch \/ PollEmpty \/ PollRaises)
                         /\ ~ENABLED (Skip \/ Dispatch \/ Sync \/ Close)
    /\ exit # "running" => pc \in {"finally", "done"}

\* A run closed after an exception escaped process_message.
C3_Witness ==
    pc = "done" /\ closeCalls = 1 /\ exit = "exception" /\ last.raised


\* ----------------------------------------------- claims about the dispatch
\* The step just taken handed a decoded event to the dispatch.
Dispatched(l, op) == op = "dispatch" /\ l.msg.body = "event"

\* The event asks for generation: VersionCreated, or VersionStateChanged
\* with newState ENABLED.
AsksGeneration(m) ==
    \/ m.eventType = "ARTIFACT_VERSION_CREATED"
    \/ m.eventType = "ARTIFACT_VERSION_STATE_CHANGED" /\ m.newState = "ENABLED"

\* The coordinate an event names; the group is "default" when absent.
GroupName(m) == IF m.groupId = None THEN "default" ELSE m.groupId
HasVersion(m) == m.artifactId # None /\ m.version # None
VersionDir(m) == <<GroupName(m), m.artifactId, m.version>>
ArtifactDir(m) == <<GroupName(m), m.artifactId>>
ModeFile(m, mode) ==
    [dir |-> VersionDir(m), name |-> <<GroupName(m), m.artifactId, m.version, mode>>]

Under(p, q) == Len(q) >= Len(p) /\ \A k \in 1..Len(p) : q[k] = p[k]

\* t2 is t without the directory p and all that is below it.
Removed(t, t2, p) ==
    /\ t2.dirs = {d \in t.dirs : ~Under(p, d)}
    /\ DOMAIN t2.files = {f \in DOMAIN t.files : ~Under(p, f.dir)}
    /\ \A f \in DOMAIN t2.files : t2.files[f] = t.files[f]

\* The registry answers both fetches and reports ENABLED, the directory can
\* be made.
Enabled(e) == e.content = "ok" /\ e.state = "ENABLED" /\ e.mkdir

\* Every mode's run gives a document and every write succeeds.
AllSucceed(e) ==
    /\ Enabled(e)
    /\ \A m \in ModeSet : e.gen[m].kind = "doc" /\ e.write[m]

\* C4: a VersionCreated or VersionStateChanged(ENABLED) event for a
\* coordinate the registry reports ENABLED, with the three modes succeeding,
\* leaves exactly three files in the version directory, one per mode, each
\* holding its mode's document, creates that directory and its parents, and
\* changes no other file or directory.
C4_ThreeFiles ==
    [][ (Dispatched(last', lastOp') /\ AsksGeneration(last'.msg) /\ HasVersion(last'.msg)
         /\ AllSucceed(last'.env)) =>
        LET m  == last'.msg
            d  == VersionDir(m)
            in == {f \in DOMAIN tree'.files : f.dir = d}
        IN  /\ in = {ModeFile(m, mode) : mode \in ModeSet}
            /\ Cardinality(in) = 3
            /\ \A mode \in ModeSet :
                  tree'.files[ModeFile(m, mode)].kind = last'.env.gen[mode].doc.kind
            /\ tree'.dirs = tree.dirs \cup {<<d[1]>>, <<d[1], d[2]>>, d}
            /\ {f \in DOMAIN tree'.files : f.dir # d} = {f \in DOMAIN tree.files : f.dir # d}
            /\ \A f \in DOMAIN tree.files : f.dir # d => tree'.files[f] = tree.files[f]
            /\ ~last'.raised
      ]_vars

\* A state change to ENABLED generated three files in a new directory,
\* next to what earlier runs left in the tree.
C4_Witness ==
    /\ Dispatched(last, lastOp) /\ AllSucceed(last.env)
    /\ last.msg.eventType = "ARTIFACT_VERSION_STATE_CHANGED" /\ HasVersion(last.msg)
    /\ last.changed
    /\ <<"default", "b", "1">> \in tree.dirs

\* C5: when the registry reports a state other than ENABLED for an event
\* that asks for generation, kuadrantctl is not run and the tree stays as it
\* was: the only calls are the two fetches.
C5_StateAuthority ==
    [][ (Dispatched(last', lastOp') /\ AsksGeneration(last'.msg)
         /\ last'.env.content = "ok" /\ last'.env.state \notin {"ENABLED", "fail"}) =>
        /\ tree' = tree
        /\ last'.calls = <<"content", "state">>
        /\ ~last'.raised
      ]_vars

\* A state change to ENABLED for a version the registry reports DISABLED, in
\* a tree that has no directory for it.
C5_Witness ==
    /\ Dispatched(last, lastOp)
    /\ last.msg.eventType = "ARTIFACT_VERSION_STATE_CHANGED" /\ last.msg.newState = "ENABLED"
    /\ HasVersion(last.msg) /\ last.env.content = "ok" /\ last.env.state = "DISABLED"
    /\ VersionDir(last.msg) \notin tree.dirs

\* C6: an ArtifactDeleted event removes the artifact's directory with every
\* version below it, a VersionDeleted event removes the version's directory
\* and what is in it; every other directory and file stays, with its content;
\* when the directory does not exist the tree is unchanged.
C6_DeletionScope ==
    [][ /\ (Dispatched(last', lastOp') /\ last'.msg.eventType = "ARTIFACT_DELETED"
            /\ last'.msg.artifactId # None) =>
              /\ Removed(tree, tree', ArtifactDir(last'.msg))
              /\ ArtifactDir(last'.msg) \notin tree.dirs => tree' = tree
              /\ ~last'.raised
        /\ (Dispatched(last', lastOp') /\ last'.msg.eventType = "ARTIFACT_VERSION_DELETED"
            /\ HasVersion(last'.msg)) =>
              /\ Removed(tree, tree', VersionDir(last'.msg))
              /\ VersionDir(last'.msg) \notin tree.dirs => tree' = tree
              /\ ~last'.raised
      ]_vars

\* Version 1 of an artifact was deleted and its sibling version 2 still has
\* its three files.
C6_Witness ==
    /\ Dispatched(last, lastOp) /\ last.msg.eventType = "ARTIFACT_VERSION_DELETED"
    /\ last.msg.artifactId = "a" /\ last.msg.version = "1" /\ last.msg.groupId = None
    /\ last.changed
    /\ <<"default", "a", "1">> \notin tree.dirs
    /\ Cardinality({f \in DOMAIN tree.files : f.dir = <<"default", "a", "2">>}) = 3

KnownEventTypes == {"ARTIFACT_VERSION_CREATED", "ARTIFACT_VERSION_STATE_CHANGED",
                    "ARTIFACT_DELETED", "ARTIFACT_VERSION_DELETED"}

\* Something that was in the tree is gone from it.
Loses(t, t2) ==
    \/ \E d \in t.dirs : d \notin t2.dirs
    \/ \E f \in DOMAIN t.files : f \notin DOMAIN t2.files

\* C7: a VersionStateChanged event whose newState is not ENABLED (or is
\* absent) and an event of an unrecognised type make no call and leave the
\* tree unchanged; and no step removes a file or a directory unless it
\* dispatches an ArtifactDeleted or a VersionDeleted event.
C7_NoOp ==
    [][ /\ (Dispatched(last', lastOp')
            /\ \/ /\ last'.msg.eventType = "ARTIFACT_VERSION_STATE_CHANGED"
                  /\ last'.msg.newState # "ENABLED"
               \/ last'.msg.eventType \notin KnownEventTypes) =>
              /\ tree' = tree
              /\ last'.calls = <<>>
              /\ ~last'.raised
        /\ Loses(tree, tree') =>
              /\ Dispatched(last', lastOp')
              /\ last'.msg.eventType \in {"ARTIFACT_DELETED", "ARTIFACT_VERSION_DELETED"}
      ]_vars

\* A version with generated files was reported DISABLED and kept its files.
C7_Witness ==
    /\ Dispatched(last, lastOp)
    /\ last.msg.eventType = "ARTIFACT_VERSION_STATE_CHANGED" /\ last.msg.newState = "DISABLED"
    /\ HasVersion(last.msg)
    /\ Cardinality({f \in DOMAIN tree.files : f.dir = VersionDir(last.msg)}) = 3

\* C8: processing a VersionCreated event again, right after it was
\* processed with the same answers of the registry, the generator and the
\* file system, leaves the tree as the first processing left it.
C8_IdempotentReplay ==
    [][ (Dispatched(last', lastOp') /\ replayed'
         /\ last'.msg.eventType = "ARTIFACT_VERSION_CREATED") =>
        tree' = tree
      ]_vars

\* A VersionCreated event that generated its three files was processed twice.
C8_Witness ==
    /\ Dispatched(last, lastOp) /\ replayed
    /\ last.msg.eventType = "ARTIFACT_VERSION_CREATED" /\ HasVersion(last.msg)
    /\ AllSucceed(last.env)
    /\ Cardinality({f \in DOMAIN tree.files : f.dir = VersionDir(last.msg)}) = 3

\* kuadrantctl exits non-zero for mode bad and gives a document for the two
\* other modes; every write succeeds.
OneModeExitsNonZero(e, bad) ==
    /\ Enabled(e)
    /\ e.gen[bad].kind = "nonzero"
    /\ \A m \in ModeSet \ {bad} : e.gen[m].kind = "doc"
    /\ \A m \in ModeSet : e.write[m]

\* C9: when kuadrantctl exits non-zero for one mode and succeeds for the
\* two others, all three modes are run, the two files are written with their
\* documents, the file of the failing mode is as it was (no file when there
\* was none), no exception escapes, and the loop goes on with the next
\* message of the batch; whichever mode fails.
C9_PartialGeneration ==
    [][ \A bad \in ModeSet :
         (Dispatched(last', lastOp') /\ AsksGeneration(last'.msg) /\ HasVersion(last'.msg)
          /\ OneModeExitsNonZero(last'.env, bad)) =>
           LET m == last'.msg
               f == ModeFile(m, bad)
           IN  /\ last'.calls = <<"content", "state">> \o Modes
               /\ \A ok \in ModeSet \ {bad} :
                     /\ ModeFile(m, ok) \in DOMAIN tree'.files
                     /\ tree'.files[ModeFile(m, ok)].kind = last'.env.gen[ok].doc.kind
               /\ (f \in DOMAIN tree'.files) = (f \in DOMAIN tree.files)
               /\ f \in DOMAIN tree.files => tree'.files[f] = tree.files[f]
               /\ ~last'.raised
               /\ i' = i + 1
               /\ pc' = IF i < Len(messages) THEN "process" ELSE "poll"
      ]_vars

\* authpolicy failed, the two other files are there, and the next message
\* of the batch is about to be handled.
C9_Witness ==
    /\ Dispatched(last, lastOp) /\ AsksGeneration(last.msg) /\ HasVersion(last.msg)
    /\ OneModeExitsNonZero(last.env, "authpolicy")
    /\ {f.name[4] : f \in {h \in DOMAIN tree.files : h.dir = VersionDir(last.msg)}}
          = {"httproute", "ratelimiting_policy"}
    /\ pc = "process" /\ i = 2 /\ Len(messages) = 2

\* kuadrantctl exits zero for mode bad with an output that is no mapping
\* (not parseable, or empty) and gives a document for the two other modes.
OneModeMalformed(e, bad) ==
    /\ Enabled(e)
    /\ e.gen[bad].kind \in {"badyaml", "notmapping"}
    /\ \A m \in ModeSet \ {bad} : e.gen[m].kind = "doc"
    /\ \A m \in ModeSet : e.write[m]

\* C10: when a mode's output is malformed, the modes after it are still
\* run and their files written.
C10_MalformedPerMode ==
    [][ \A k \in 1..Len(Modes) :
         (Dispatched(last', lastOp') /\ AsksGeneration(last'.msg) /\ HasVersion(last'.msg)
          /\ OneModeMalformed(last'.env, Modes[k])) =>
           \A j \in (k + 1)..Len(Modes) :
              /\ \E n \in 1..Len(last'.calls) : last'.calls[n] = Modes[j]
              /\ ModeFile(last'.msg, Modes[j]) \in DOMAIN tree'.files
      ]_vars


\* The loop goes on with the message after the current one, or with the
\* next poll when the batch is finished.
GoesOn == i' = i + 1 /\ pc' = IF i < Len(messages) THEN "process" ELSE "poll"

\* Every run of kuadrantctl gives a document and the write of mode bad fails.
OneWriteFails(e, bad) ==
    /\ Enabled(e)
    /\ \A m \in ModeSet : e.gen[m].kind = "doc"
    /\ ~e.write[bad]
    /\ \A m \in ModeSet \ {bad} : e.write[m]

\* C11: when the file of one mode cannot be written, the two other modes
\* are still run and their files written, and the loop goes on with the next
\* message.
C11_WriteErrorPerFile ==
    [][ \A bad \in ModeSet :
         (Dispatched(last', lastOp') /\ AsksGeneration(last'.msg) /\ HasVersion(last'.msg)
          /\ OneWriteFails(last'.env, bad)) =>
           /\ \A ok \in ModeSet \ {bad} :
                 /\ \E n \in 1..Len(last'.calls) : last'.calls[n] = ok
                 /\ ModeFile(last'.msg, ok) \in DOMAIN tree'.files
           /\ ~last'.raised
           /\ GoesOn
      ]_vars

\* One of the two registry requests fails.
FetchFails(e) == e.content = "fail" \/ (e.content = "ok" /\ e.state = "fail")

C13_UndecodableSkipped ==
    [][ (lastOp' = "dispatch" /\ last'.msg.body \in Undecodable) =>
        /\ tree' = tree
        /\ last'.calls = <<>>
        /\ ~last'.raised
        /\ GoesOn
      ]_vars

\* C14: an event without artifactId makes no call, deletes nothing, and
\* the loop goes on, whatever its type.
C14_NoArtifactIdRejected ==
    [][ (Dispatched(last', lastOp') /\ last'.msg.artifactId = None) =>
        /\ tree' = tree
        /\ last'.calls = <<>>
        /\ ~last'.raised
        /\ GoesOn
      ]_vars

\* C15: no event that names its artifact makes the loop end, whatever
\* other field it lacks: no exception escapes its processing and the loop
\* goes on.
C15_NoEventAborts ==
    [][ (Dispatched(last', lastOp') /\ last'.msg.artifactId # None) =>
        /\ ~last'.raised
        /\ exit' = "running"
        /\ GoesOn
      ]_vars

C17_StatusStripped ==
    /\ [](\A f \in DOMAIN tree.files : "status" \notin DOMAIN tree.files[f])
    /\ [][ \A mode \in ModeSet :
            (Dispatched(last', lastOp') /\ AsksGeneration(last'.msg)
             /\ HasVersion(last'.msg) /\ AllSucceed(last'.env)) =>
              LET out == last'.env.gen[mode].doc
                  w   == tree'.files[ModeFile(last'.msg, mode)]
              IN  /\ DOMAIN w = (DOMAIN out) \ {"status"}
                  /\ \A k \in DOMAIN w : w[k] = out[k]
         ]_vars

\* A document with status s2 was generated and written without it.
C17_Witness ==
    /\ Dispatched(last, lastOp) /\ AsksGeneration(last.msg) /\ HasVersion(last.msg)
    /\ AllSucceed(last.env)
    /\ last.env.gen["authpolicy"].doc = [kind |-> "r2", status |-> "s2"]
    /\ DOMAIN tree.files[ModeFile(last.msg, "authpolicy")] = {"kind"}
    /\ tree.files[ModeFile(last.msg, "authpolicy")].kind = "r2"

NotErrored(m) == m.error = "none"

\* C18: the messages handed to process_message are the messages of the
\* batch that carry no error, in the order of the batch, each once: while the
\* batch is processed they are those before the loop's position, and when it
\* is finished all of them; a message with an error changes nothing.
C18_InOrder ==
    /\ [](/\ pc = "process" =>
               handled = SelectSeq(SubSeq(messages, 1, i - 1), NotErrored)
          /\ (pc = "poll" /\ lastOp \in {"dispatch", "skip"}) =>
               handled = SelectSeq(messages, NotErrored)
          /\ (exit = "exception" /\ last.raised) =>
               handled = SelectSeq(SubSeq(messages, 1, i), NotErrored))
    /\ [][ /\ lastOp' = "skip" => tree' = tree /\ handled' = handled
           /\ lastOp' = "dispatch" =>
                 /\ last'.msg = messages[i]
                 /\ Len(handled') = Len(handled) + 1
         ]_vars

\* A batch of an end-of-partition marker and an event is finished: the
\* event alone was handled, and it changed the tree.
C18_Witness ==
    /\ pc = "poll" /\ lastOp = "dispatch" /\ Len(messages) = 2
    /\ messages[1].error = "eof" /\ messages[2].body = "event"
    /\ handled = <<messages[2]>>
    /\ last.changed

\* C20: every version directory of the tree holds at least one file.
C20_DirHasFile ==
    \A d \in tree.dirs : Len(d) = 3 => \E f \in DOMAIN tree.files : f.dir = d


\* C19: from every poll on, either a later poll returns messages (or
\* raises), or the loop calls the synchronisation and terminates; the loop is
\* never still running once the consecutive empty polls reach the threshold;
\* and it leaves normally only through the synchronisation at the threshold,
\* however many messages it has processed: until then nothing is synced.
C19_IdleTermination ==
    /\ (pc = "poll") ~> \/ pc = "done" /\ syncCalls = 1
                        \/ lastOp \in {"poll", "raise"}
    /\ [](Running => /\ emptyPolls * timeout < idle_timeout
                     /\ syncCalls = 0 /\ exit = "running")
    /\ [](exit = "idle" => /\ syncCalls = 1
                           /\ emptyPolls * timeout >= idle_timeout)
    /\ [](pc \in {"finally", "done"} => exit \in {"idle", "exception", "interrupt"})

\* All the messages were processed, in two batches, and the run ended by
\* idleness.
C19_Witness ==
    /\ pc = "done" /\ exit = "idle" /\ syncCalls = 1
    /\ received = MaxMsgs /\ Len(messages) = 0
    /\ tree # EmptyTree
    /\ timeout = 3 /\ emptyPolls = 4

====
